---- MODULE Spec2Model ----
(***************************************************************************)
(* Model of package parse (src/parse/parse.go): a Parser bound to one Bro  *)
(* log file, its field configuration, the index resolution, the row scan   *)
(* of BufferRow and the channel p.Row that carries rows to a consumer.     *)
(*                                                                         *)
(* A Go string is a sequence of one-character strings, so that slicing     *)
(* (line[0:7], line[8:], line[1:]), indexing (line[0]) and strings.Split   *)
(* are computed as the code computes them.                                 *)
(***************************************************************************)
EXTENDS Integers, Sequences, FiniteSets, TLC

\* ------------------------------------------------------------------ bounds
MaxRows == 2       \* lines of the log file after its header lines
MaxCap == 1        \* capacity given to CreateBuffer
MaxRuns == 2       \* invocations of BufferRow on one parser
MaxIndexLen == 4   \* length to which fieldsIndex may grow
MaxHeadLines == 2  \* lines of a file given to the header scanner alone

\* --------------------------------------------------------------- constants
PrefixLen == 7     \* line[0:7]
RestFrom == 8      \* line[8:]

TAB == "\t"
Marker == "#"
Directive == <<"#", "f", "i", "e", "l", "d", "s">>

\* ------------------------------------------------------------ file content
HdrABC == Directive \o <<TAB, "a", TAB, "b", TAB, "c">>
HdrA == Directive \o <<TAB, "a">>
HdrEmpty == Directive \o <<TAB>>
Comment == <<"#">>
Row123 == <<"1", TAB, "2", TAB, "3">>
Row456 == <<"4", TAB, "5", TAB, "6">>
Row12 == <<"1", TAB, "2">>
Row7 == <<"7">>
Blank == <<>>

Preamble == <<"#", "t", "y", "p", "e", "s", TAB, "x">>

\* the head of a file, and the lines that follow it
Heads == {<<HdrABC>>, <<HdrA>>, <<HdrEmpty>>, <<>>}
DataLines == {Row123, Row456, Row12, Row7, Blank, Comment}

RECURSIVE SeqsUpTo(_, _)
SeqsUpTo(S, n) ==
    IF n = 0 THEN {<<>>}
    ELSE LET shorter == SeqsUpTo(S, n - 1)
         IN  shorter \cup {Append(s, x) : s \in shorter, x \in S}

Files == {head \o body : head \in Heads, body \in SeqsUpTo(DataLines, MaxRows)}

\* the files read by the header scanner alone
HeadLines == {HdrABC, HdrA, HdrEmpty, Directive, Preamble, Comment, Row123, Blank}
HeaderFiles == SeqsUpTo(HeadLines, MaxHeadLines)

\* the files of the runs that reuse one parser
ReuseFiles == {<<HdrABC, Row123, Row12>>}

\* field selections a caller passes to SetFields
Name(c) == <<c>>
Selections ==
    { <<Name("c"), Name("a")>>, <<Name("a"), Name("a")>>, <<Name("a"), Name("z")>>,
      <<Name("a"), Name("b"), Name("c")>>, <<Name("a")>> }

\* ------------------------------------------------------- string operations
\* s[from:] of Go, from counted from 0
SliceFrom(s, from) == SubSeq(s, from + 1, Len(s))

\* s[0:to] of Go
SliceTo(s, to) == SubSeq(s, 1, to)

\* position of the first TAB of s, 0 when there is none
FirstTab(s) ==
    IF \E i \in 1..Len(s) : s[i] = TAB
    THEN CHOOSE i \in 1..Len(s) : s[i] = TAB /\ \A j \in 1..(i - 1) : s[j] # TAB
    ELSE 0

\* strings.Split(s, "\t")
RECURSIVE Split(_)
Split(s) ==
    IF FirstTab(s) = 0 THEN <<s>>
    ELSE <<SubSeq(s, 1, FirstTab(s) - 1)>> \o Split(SubSeq(s, FirstTab(s) + 1, Len(s)))

\* ------------------------------------------------------------------- state
VARIABLES
    file,         \* the lines bufio.Scanner yields for the file at p.filepath
    finalNewline, \* whether the last line of the file ends with a newline character
    parsed,       \* value returned by the latest ParseAllFields the caller made
    openable,     \* whether os.Open(p.filepath) succeeds
    allFields,    \* p.allFields
    fields,       \* p.fields
    fieldsNil,    \* p.fields == nil
    fieldsIndex,  \* p.fieldsIndex
    Row,          \* p.Row: the channel, or nil
    pc,           \* position of BufferRow: "idle", "scan", "returned", "panic"
    lineNo,       \* line the scanner of BufferRow yields next
    parseFunc,    \* the optional argument of the running BufferRow
    err,          \* value returned by the latest GetIndexOfFields
    runs,         \* per invocation of BufferRow: configuration, extractions (raw),
                  \* rows sent, outcome
    emitted,      \* rows sent on the current channel
    received,     \* rows the consumer took from the current channel
    sawClosed     \* the consumer observed the closed state

config == <<allFields, fields, fieldsNil, fieldsIndex>>
consumer == <<received, sawClosed>>
vars == <<file, finalNewline, parsed, openable, allFields, fields, fieldsNil, fieldsIndex,
          Row, pc, lineNo, parseFunc, err, runs, emitted, received, sawClosed>>

NoError == [kind |-> "nil", field |-> <<>>]
Error(k) == [kind |-> k, field |-> <<>>]
NotFound(f) == [kind |-> "NotFound", field |-> f]

NilChan == [nil |-> TRUE, cap |-> 0, buf |-> <<>>, closed |-> FALSE]
MakeChan(n) == [nil |-> FALSE, cap |-> n, buf |-> <<>>, closed |-> FALSE]

\* ---------------------------------------------------------- header scanner
NotCalled == [err |-> [kind |-> "notcalled", field |-> <<>>], fields |-> <<>>, isNil |-> TRUE]

\* a header scan that does not stop at the first directive line: the last one wins
RECURSIVE ScanHeaderLast(_, _)
ScanHeaderLast(lines, i) ==
    IF i > Len(lines) THEN [err |-> NoError, fields |-> <<>>, isNil |-> TRUE]
    ELSE LET line == lines[i] IN
         IF Len(line) < PrefixLen
         THEN [err |-> Error("panic"), fields |-> <<>>, isNil |-> TRUE]
         ELSE IF SliceTo(line, PrefixLen) = Directive
         THEN IF Len(line) < RestFrom
              THEN [err |-> Error("panic"), fields |-> <<>>, isNil |-> TRUE]
              ELSE IF SliceFrom(line, RestFrom) = <<>>
              THEN [err |-> Error("MalformedHeader"), fields |-> <<>>, isNil |-> TRUE]
              ELSE LET later == ScanHeaderLast(lines, i + 1) IN
                   IF later.err = NoError /\ later.isNil
                   THEN [err |-> NoError, fields |-> Split(SliceFrom(line, RestFrom)),
                         isNil |-> FALSE]
                   ELSE later
         ELSE ScanHeaderLast(lines, i + 1)

\* the loop of ParseAllFields from line i on
RECURSIVE ScanHeader(_, _)
ScanHeader(lines, i) ==
    IF i > Len(lines) THEN [err |-> NoError, fields |-> <<>>, isNil |-> TRUE]
    ELSE LET line == lines[i] IN
         IF Len(line) < PrefixLen
         THEN [err |-> Error("panic"), fields |-> <<>>, isNil |-> TRUE]
         ELSE IF SliceTo(line, PrefixLen) = Directive
         THEN IF Len(line) < RestFrom
              THEN [err |-> Error("panic"), fields |-> <<>>, isNil |-> TRUE]
              ELSE IF SliceFrom(line, RestFrom) = <<>>
              THEN [err |-> Error("MalformedHeader"), fields |-> <<>>, isNil |-> TRUE]
              ELSE [err |-> NoError, fields |-> Split(SliceFrom(line, RestFrom)),
                    isNil |-> FALSE]
         ELSE ScanHeader(lines, i + 1)

ParseAllFields ==
    IF ~openable THEN [err |-> Error("IO"), fields |-> <<>>, isNil |-> TRUE]
    ELSE ScanHeader(file, 1)

\* ----------------------------------------------------- field index resolver
\* getIndex answering position 0 for a name it does not find
getIndexNoError(all, configField) ==
    IF \E i \in 1..Len(all) : all[i] = configField
    THEN (CHOOSE i \in 1..Len(all) :
             all[i] = configField /\ \A j \in 1..(i - 1) : all[j] # configField) - 1
    ELSE 0

\* index (from 0) of the first element of all equal to configField, -1 if none
getIndex(all, configField) ==
    IF \E i \in 1..Len(all) : all[i] = configField
    THEN (CHOOSE i \in 1..Len(all) :
             all[i] = configField /\ \A j \in 1..(i - 1) : all[j] # configField) - 1
    ELSE -1

\* the loop of GetIndexOfFields over p.fields from position k on, appending to index
RECURSIVE ResolveLoop(_, _, _, _)
ResolveLoop(all, sel, k, index) ==
    IF k > Len(sel) THEN [err |-> NoError, index |-> index]
    ELSE IF getIndex(all, sel[k]) = -1
    THEN [err |-> NotFound(sel[k]), index |-> index]
    ELSE ResolveLoop(all, sel, k + 1, Append(index, getIndex(all, sel[k])))

\* outcome of GetIndexOfFields in the current state: error and new p.fieldsIndex
Resolve ==
    LET hdr == ParseAllFields IN
    IF hdr.err # NoError THEN [err |-> hdr.err, index |-> fieldsIndex]
    ELSE IF fieldsNil THEN [err |-> Error("ConfigurationMissing"), index |-> fieldsIndex]
    ELSE ResolveLoop(hdr.fields, fields, 1, fieldsIndex)

\* ------------------------------------------------------------ transform hook
Hooks == {"none", "fail", "tag"}

\* parseFunc[0](p.fields, entry): "fail" returns an error, "tag" a rewritten row
ApplyParse(h, names, entry) ==
    [failed |-> (h = "fail"), out |-> IF h = "tag" THEN Append(entry, <<"+">>) ELSE <<>>]

\* Emit sending the hook's result whether or not the hook failed
EmitNoFallback(h, names, entry) ==
    IF h = "none" THEN entry ELSE ApplyParse(h, names, entry).out

\* the row BufferRow sends for an extraction
Emit(h, names, entry) ==
    IF h = "none" THEN entry
    ELSE IF ApplyParse(h, names, entry).failed THEN entry
    ELSE ApplyParse(h, names, entry).out

\* ---------------------------------------------------------- row stream engine
\* what the body of the scan loop of BufferRow does with one line
Classify(line) ==
    IF Len(line) = 0 THEN [kind |-> "panic", entry |-> <<>>]
    ELSE IF line[1] = Marker THEN [kind |-> "skip", entry |-> <<>>]
    ELSE IF SliceFrom(line, 1) = <<>> THEN [kind |-> "skip", entry |-> <<>>]
    ELSE LET entry == Split(line) IN
         IF ~allFields
         THEN IF \E i \in 1..Len(fieldsIndex) : fieldsIndex[i] >= Len(entry)
              THEN [kind |-> "panic", entry |-> <<>>]
              ELSE [kind |-> "send",
                    entry |-> [i \in 1..Len(fieldsIndex) |-> entry[fieldsIndex[i] + 1]]]
         ELSE IF Len(fields) # Len(entry) THEN [kind |-> "skip", entry |-> <<>>]
         ELSE [kind |-> "send", entry |-> entry]

Callable == pc \in {"idle", "returned"}

LastRun == runs[Len(runs)]
Outcome(r) == [runs EXCEPT ![Len(runs)].ret = r]
Sent(row) ==
    [runs EXCEPT ![Len(runs)].rows = Append(@, row),
                 ![Len(runs)].raw = Append(@, Classify(file[lineNo]).entry)]

\* NewParser(path, allFields): the file exists; opening it may still fail
Init ==
    /\ file \in Files
    /\ finalNewline = TRUE
    /\ parsed = NotCalled
    /\ openable \in BOOLEAN
    /\ allFields \in BOOLEAN
    /\ fields = <<>> /\ fieldsNil = TRUE
    /\ fieldsIndex = <<>>
    /\ Row = NilChan
    /\ pc = "idle" /\ lineNo = 0 /\ parseFunc = "none"
    /\ err = NoError
    /\ runs = <<>> /\ emitted = <<>>
    /\ received = <<>> /\ sawClosed = FALSE

\* the caller's call of ParseAllFields
ParseAllFieldsCall ==
    /\ Callable
    /\ parsed' = ParseAllFields
    /\ pc' = IF ParseAllFields.err.kind = "panic" THEN "panic" ELSE pc
    /\ UNCHANGED <<file, finalNewline, openable, config, Row, lineNo, parseFunc, err, runs,
                   emitted, consumer>>

\* number of newline characters of the file
CountLines == IF finalNewline THEN Len(file) ELSE Len(file) - 1

\* CountLines, then CreateBuffer with its result; nothing when the file cannot be opened
AutoCreateBuffer ==
    /\ Callable
    /\ IF openable
       THEN /\ Row' = MakeChan(CountLines)
            /\ emitted' = <<>> /\ received' = <<>> /\ sawClosed' = FALSE
       ELSE UNCHANGED <<Row, emitted, received, sawClosed>>
    /\ UNCHANGED <<file, finalNewline, parsed, openable, config, pc, lineNo, parseFunc, err,
                   runs>>

SetFields(f) ==
    /\ Callable
    /\ fields' = f /\ fieldsNil' = FALSE
    /\ UNCHANGED <<file, finalNewline, parsed, openable, allFields, fieldsIndex, Row, pc,
                   lineNo, parseFunc, err, runs, emitted, received, sawClosed>>

GetIndexOfFields ==
    /\ Callable
    /\ err' = Resolve.err
    /\ fieldsIndex' = Resolve.index
    /\ pc' = IF Resolve.err.kind = "panic" THEN "panic" ELSE pc
    /\ UNCHANGED <<file, finalNewline, parsed, openable, allFields, fields, fieldsNil, Row,
                   lineNo, parseFunc, runs, emitted, received, sawClosed>>

CreateBuffer(bufferSize) ==
    /\ Callable
    /\ Row' = MakeChan(bufferSize)
    /\ emitted' = <<>> /\ received' = <<>> /\ sawClosed' = FALSE
    /\ UNCHANGED <<file, finalNewline, parsed, openable, allFields, fields, fieldsNil,
                   fieldsIndex, pc, lineNo, parseFunc, err, runs>>

\* BufferRow up to the creation of the scanner
BufferRowCall(h) ==
    /\ Callable
    /\ LET entered == Append(runs, [fields |-> fields, fieldsNil |-> fieldsNil,
                                    index |-> fieldsIndex, hook |-> h,
                                    rows |-> <<>>, raw |-> <<>>, ret |-> "running"])
           finish(r) == [entered EXCEPT ![Len(entered)].ret = r]
       IN
       /\ parseFunc' = h
       /\ IF Row.nil
          THEN /\ pc' = "returned" /\ runs' = finish("nilchan")
               /\ UNCHANGED <<fieldsIndex, err, lineNo>>
          ELSE IF fieldsNil
          THEN /\ pc' = "returned" /\ runs' = finish("nofields")
               /\ UNCHANGED <<fieldsIndex, err, lineNo>>
          ELSE IF ~allFields /\ Resolve.err # NoError
          THEN /\ pc' = IF Resolve.err.kind = "panic" THEN "panic" ELSE "returned"
               /\ runs' = finish(IF Resolve.err.kind = "panic" THEN "panic" ELSE "resolve")
               /\ err' = Resolve.err /\ fieldsIndex' = Resolve.index
               /\ UNCHANGED lineNo
          ELSE /\ IF allFields THEN UNCHANGED <<fieldsIndex, err>>
                  ELSE err' = Resolve.err /\ fieldsIndex' = Resolve.index
               /\ IF ~openable
                  THEN pc' = "returned" /\ runs' = finish("open") /\ UNCHANGED lineNo
                  ELSE pc' = "scan" /\ runs' = entered /\ lineNo' = 1
    /\ UNCHANGED <<file, finalNewline, parsed, openable, allFields, fields, fieldsNil, Row,
                   emitted, received, sawClosed>>

Scanning == pc = "scan" /\ lineNo <= Len(file)

\* a comment, header, degenerate or mismatched line: continue with the next line
ScanSkip ==
    /\ Scanning /\ Classify(file[lineNo]).kind = "skip"
    /\ lineNo' = lineNo + 1
    /\ UNCHANGED <<file, finalNewline, parsed, openable, config, Row, pc, parseFunc, err,
                   runs, emitted, consumer>>

\* an index out of range: line[0] of an empty line, entry[fieldIndex] of a short row
ScanPanic ==
    /\ Scanning /\ Classify(file[lineNo]).kind = "panic"
    /\ pc' = "panic" /\ runs' = Outcome("panic")
    /\ UNCHANGED <<file, finalNewline, parsed, openable, config, Row, lineNo, parseFunc,
                   err, emitted, consumer>>

RowToSend == Emit(parseFunc, fields, Classify(file[lineNo]).entry)

\* a send that does not block: the row is dropped when the buffer is full
ScanSendLossy ==
    /\ Scanning /\ Classify(file[lineNo]).kind = "send"
    /\ ~Row.closed /\ Row.cap > 0
    /\ Row' = IF Len(Row.buf) < Row.cap THEN [Row EXCEPT !.buf = Append(@, RowToSend)]
              ELSE Row
    /\ emitted' = Append(emitted, RowToSend) /\ runs' = Sent(RowToSend)
    /\ lineNo' = lineNo + 1
    /\ UNCHANGED <<file, finalNewline, parsed, openable, config, pc, parseFunc, err,
                   consumer>>

\* p.Row <- row, into a free slot of the buffer
ScanSend ==
    /\ Scanning /\ Classify(file[lineNo]).kind = "send"
    /\ ~Row.closed /\ Len(Row.buf) < Row.cap
    /\ Row' = [Row EXCEPT !.buf = Append(@, RowToSend)]
    /\ emitted' = Append(emitted, RowToSend) /\ runs' = Sent(RowToSend)
    /\ lineNo' = lineNo + 1
    /\ UNCHANGED <<file, finalNewline, parsed, openable, config, pc, parseFunc, err,
                   consumer>>

\* p.Row <- row on an unbuffered channel: handed to the waiting consumer
ScanHandoff ==
    /\ Scanning /\ Classify(file[lineNo]).kind = "send"
    /\ ~Row.closed /\ Row.cap = 0
    /\ received' = Append(received, RowToSend)
    /\ emitted' = Append(emitted, RowToSend) /\ runs' = Sent(RowToSend)
    /\ lineNo' = lineNo + 1
    /\ UNCHANGED <<file, finalNewline, parsed, openable, config, Row, pc, parseFunc, err,
                   sawClosed>>

\* p.Row <- row on a closed channel
ScanSendClosed ==
    /\ Scanning /\ Classify(file[lineNo]).kind = "send"
    /\ Row.closed
    /\ pc' = "panic" /\ runs' = Outcome("panic")
    /\ UNCHANGED <<file, finalNewline, parsed, openable, config, Row, lineNo, parseFunc,
                   err, emitted, consumer>>

\* close(p.Row) after the loop
Close ==
    /\ pc = "scan" /\ lineNo > Len(file)
    /\ IF Row.closed
       THEN pc' = "panic" /\ runs' = Outcome("panic") /\ UNCHANGED Row
       ELSE pc' = "returned" /\ runs' = Outcome("eof") /\ Row' = [Row EXCEPT !.closed = TRUE]
    /\ UNCHANGED <<file, finalNewline, parsed, openable, config, lineNo, parseFunc, err,
                   emitted, consumer>>

\* the consumer: row, ok := <-p.Row
Receive ==
    /\ pc # "panic" /\ ~Row.nil /\ Len(Row.buf) > 0
    /\ received' = Append(received, Head(Row.buf))
    /\ Row' = [Row EXCEPT !.buf = Tail(@)]
    /\ UNCHANGED <<file, finalNewline, parsed, openable, config, pc, lineNo, parseFunc, err,
                   runs, emitted, sawClosed>>

ObserveClosed ==
    /\ pc # "panic" /\ ~Row.nil /\ Len(Row.buf) = 0 /\ Row.closed /\ ~sawClosed
    /\ sawClosed' = TRUE
    /\ UNCHANGED <<file, finalNewline, parsed, openable, config, Row, pc, lineNo, parseFunc,
                   err, runs, emitted, received>>

\* one parse session: configure, create the stream, run BufferRow once, drain
Fresh == pc = "idle"

Next ==
    \/ \E f \in Selections : Fresh /\ fieldsNil /\ SetFields(f)
    \/ Fresh /\ err = NoError /\ fieldsIndex = <<>> /\ GetIndexOfFields
    \/ \E n \in 0..MaxCap : Fresh /\ Row.nil /\ CreateBuffer(n)
    \/ \E h \in Hooks : Fresh /\ BufferRowCall(h)
    \/ ScanSkip
    \/ ScanPanic
    \/ ScanSend
    \/ ScanHandoff
    \/ Close
    \/ Receive
    \/ ObserveClosed

Spec == Init /\ [][Next]_vars

\* one parser reused: any sequence of calls, BufferRow at most MaxRuns times
InitReuse == Init /\ file \in ReuseFiles /\ openable

\* the index list stays within MaxIndexLen after one more resolution
CanGrow == Len(Resolve.index) <= MaxIndexLen

NextReuse ==
    \/ \E f \in Selections : SetFields(f)
    \/ CanGrow /\ GetIndexOfFields
    \/ \E n \in 0..MaxCap : CreateBuffer(n)
    \/ Len(runs) < MaxRuns /\ (allFields \/ CanGrow) /\ BufferRowCall("none")
    \/ ScanSkip
    \/ ScanPanic
    \/ ScanSend
    \/ ScanHandoff
    \/ ScanSendClosed
    \/ Close
    \/ Receive
    \/ ObserveClosed

SpecReuse == InitReuse /\ [][NextReuse]_vars

\* the header scanner alone, on any file of HeaderFiles
InitHeader ==
    /\ file \in HeaderFiles
    /\ finalNewline = TRUE
    /\ parsed = NotCalled
    /\ openable \in BOOLEAN
    /\ allFields \in BOOLEAN
    /\ fields = <<>> /\ fieldsNil = TRUE
    /\ fieldsIndex = <<>>
    /\ Row = NilChan
    /\ pc = "idle" /\ lineNo = 0 /\ parseFunc = "none"
    /\ err = NoError
    /\ runs = <<>> /\ emitted = <<>>
    /\ received = <<>> /\ sawClosed = FALSE

NextHeader ==
    \/ ParseAllFieldsCall
    \/ \E f \in Selections : Fresh /\ fieldsNil /\ SetFields(f)
    \/ Fresh /\ err = NoError /\ fieldsIndex = <<>> /\ GetIndexOfFields

SpecHeader == InitHeader /\ [][NextHeader]_vars

\* one parse session whose stream is sized by AutoCreateBuffer; the last line of
\* the file may lack its newline character
InitAuto ==
    /\ file \in Files
    /\ finalNewline \in BOOLEAN
    /\ ~finalNewline => (Len(file) >= 1 /\ file[Len(file)] # <<>>)
    /\ parsed = NotCalled
    /\ openable \in BOOLEAN
    /\ allFields \in BOOLEAN
    /\ fields = <<>> /\ fieldsNil = TRUE
    /\ fieldsIndex = <<>>
    /\ Row = NilChan
    /\ pc = "idle" /\ lineNo = 0 /\ parseFunc = "none"
    /\ err = NoError
    /\ runs = <<>> /\ emitted = <<>>
    /\ received = <<>> /\ sawClosed = FALSE

NextAuto ==
    \/ \E f \in Selections : Fresh /\ fieldsNil /\ SetFields(f)
    \/ Fresh /\ Row.nil /\ AutoCreateBuffer
    \/ Fresh /\ BufferRowCall("none")
    \/ ScanSkip
    \/ ScanPanic
    \/ ScanSend
    \/ ScanHandoff
    \/ Close
    \/ Receive
    \/ ObserveClosed

SpecAuto == InitAuto /\ [][NextAuto]_vars

\* ================================================================== claims
\* the column names the file declares: the tab-split of its first directive line
Header == IF ParseAllFields.err = NoError THEN ParseAllFields.fields ELSE <<>>

InHeader(name) == \E j \in 1..Len(Header) : Header[j] = name

Column(name) == CHOOSE j \in 1..Len(Header) : Header[j] = name

\* a run of BufferRow was entered on a parser whose stream exists
Invoked == runs # <<>> /\ LastRun.ret # "nilchan"

Ended == pc \in {"returned", "panic"}

\* C1: every invocation of BufferRow on a parser whose output stream has been
\* created leaves the stream closed when it returns, whether the scan ran to the
\* end of the file or aborted.
C1_ClosedOnReturn == (Invoked /\ pc = "returned") => Row.closed

IsData(line) == Len(line) > 0 /\ line[1] # Marker

WellFormed ==
    /\ Len(file) >= 2
    /\ Len(file[1]) > RestFrom /\ SliceTo(file[1], PrefixLen) = Directive
    /\ \A k \in 2..Len(file) :
          /\ IsData(file[k])
          /\ Len(Split(file[k])) = Len(Header)
          /\ \A v \in 1..Len(Split(file[k])) : Split(file[k])[v] # <<>>

\* the values of a data line in the columns named by a selection
Project(line, sel) == [i \in 1..Len(sel) |-> Split(line)[Column(sel[i])]]

ExpectedRows(sel) == [k \in 1..(Len(file) - 1) |-> Project(file[k + 1], sel)]

\* C3: in selected-fields mode on a freshly constructed parser, for a file of one
\* directive line and data rows with one value per declared column, BufferRow
\* emits for each data line, in file order, the values in the columns named by the
\* selection, and then closes the stream.
C3_SelectedProjection ==
    (/\ Invoked /\ Ended /\ ~allFields /\ openable /\ WellFormed
     /\ ~LastRun.fieldsNil /\ LastRun.index = <<>> /\ LastRun.hook = "none"
     /\ \A i \in 1..Len(LastRun.fields) : InHeader(LastRun.fields[i]))
    => (/\ LastRun.ret = "eof" /\ Row.closed
        /\ LastRun.rows = ExpectedRows(LastRun.fields))

\* a selection with a name the header does not declare
HasAbsentField(sel) == \E i \in 1..Len(sel) : ~InHeader(sel[i])

\* C8: in selected-fields mode, when no selection is set or a selected field is
\* absent from the header, BufferRow aborts before the scan: no line is scanned
\* and no row is pushed onto the stream.
C8_AbortBeforeScan ==
    (/\ Invoked /\ ~allFields
     /\ (LastRun.fieldsNil \/ HasAbsentField(LastRun.fields)))
    => (/\ pc # "scan" /\ lineNo = 0
        /\ LastRun.rows = <<>> /\ emitted = <<>> /\ Row.buf = <<>> /\ received = <<>>)

\* BufferRow returned on a NotFound naming "z", with data rows in the file
C8_Witness ==
    /\ Invoked /\ ~allFields /\ pc = "returned" /\ LastRun.ret = "resolve"
    /\ err = NotFound(Name("z"))
    /\ \E k \in 1..Len(file) : IsData(file[k])

\* a data row whose number of values differs from the header's column count
Mismatched(line) == IsData(line) /\ Len(Split(line)) # Len(Header)

\* C9: in all-fields mode a data row whose number of tab-separated values differs
\* from the number of columns the header declares never appears in the output
\* and does not terminate the scan.
C9_MismatchSkipped ==
    (Invoked /\ allFields /\ Header # <<>> /\ LastRun.hook = "none")
    => (/\ \A k \in 1..Len(LastRun.rows) : Len(LastRun.rows[k]) = Len(Header)
        /\ ~(pc = "panic" /\ lineNo \in 1..Len(file) /\ Mismatched(file[lineNo])))

\* C10: in all-fields mode, with the stream created and SetFields never called,
\* BufferRow scans the file to its end and closes the stream.
C10_AllFieldsNeedsNoSelection ==
    (Invoked /\ allFields /\ LastRun.fieldsNil /\ openable /\ pc = "returned")
    => (LastRun.ret = "eof" /\ Row.closed)

\* index resolves sel: same length, each position the header position of its name
ResolvedFor(index, sel) ==
    /\ Len(index) = Len(sel)
    /\ \A i \in 1..Len(sel) : InHeader(sel[i]) /\ index[i] = Column(sel[i]) - 1

\* C4: whenever a call of GetIndexOfFields succeeds, whatever calls of SetFields
\* and GetIndexOfFields came before it, the index list has the length of the
\* current selection and holds, position by position, the header position of the
\* selected field.
C4_IndexMatchesSelection ==
    [][(GetIndexOfFields /\ err' = NoError) => ResolvedFor(fieldsIndex', fields')]_vars

\* C5: when the index list already resolves the current selection as BufferRow
\* is called in selected-fields mode, the scan runs with that index list
\* unchanged and every row it emits has the length of the selection.
C5_ResolvedOnce ==
    (/\ runs # <<>> /\ ~allFields /\ ~LastRun.fieldsNil /\ LastRun.hook = "none"
     /\ ResolvedFor(LastRun.index, LastRun.fields))
    => (/\ pc = "scan" => fieldsIndex = LastRun.index
        /\ \A k \in 1..Len(LastRun.rows) : Len(LastRun.rows[k]) = Len(LastRun.fields))

\* C6: two runs of BufferRow on one parser that both reach the end of the file,
\* with the same field configuration and the same hook, emit the same rows.
C6_Idempotent ==
    \A i, j \in 1..Len(runs) :
        (/\ i < j /\ runs[i].ret = "eof" /\ runs[j].ret = "eof"
         /\ runs[i].fields = runs[j].fields /\ runs[i].fieldsNil = runs[j].fieldsNil
         /\ runs[i].hook = runs[j].hook)
        => runs[i].rows = runs[j].rows

FirstAbsent(sel) ==
    sel[CHOOSE i \in 1..Len(sel) : ~InHeader(sel[i]) /\ \A j \in 1..(i - 1) : InHeader(sel[j])]

\* C7: a call of GetIndexOfFields that fails with NotFound names the first
\* selected field the header lacks and leaves the index list as it was.
C7_FailedResolutionKeepsIndex ==
    [][(GetIndexOfFields /\ err'.kind = "NotFound")
       => (err'.field = FirstAbsent(fields) /\ fieldsIndex' = fieldsIndex)]_vars

\* the extractions of the lines of a file that the scan loop sends, in file order
RECURSIVE Extractions(_)
Extractions(n) ==
    IF n = 0 THEN <<>>
    ELSE IF Classify(file[n]).kind = "send"
    THEN Append(Extractions(n - 1), Classify(file[n]).entry)
    ELSE Extractions(n - 1)

\* C11: the hook cannot veto or add a row. Every row sent is the hook's result
\* on success and the untransformed extraction on failure or without a hook, so
\* a hook that always fails yields the rows of no hook; and the extractions of a
\* completed scan are those of the file's lines, whatever the hook.
C11_TransformFallback ==
    runs # <<>> =>
        /\ Len(LastRun.rows) = Len(LastRun.raw)
        /\ \A k \in 1..Len(LastRun.rows) :
              LastRun.rows[k] =
                  IF LastRun.hook \in {"none", "fail"} THEN LastRun.raw[k]
                  ELSE ApplyParse(LastRun.hook, LastRun.fields, LastRun.raw[k]).out
        /\ LastRun.ret = "eof" => LastRun.raw = Extractions(Len(file))

\* a scan with a failing hook ran to the end of the file and sent two rows
C11_Witness ==
    /\ runs # <<>> /\ LastRun.hook = "fail" /\ LastRun.ret = "eof"
    /\ Len(LastRun.rows) = 2 /\ LastRun.rows[1] # LastRun.rows[2]

\* C12: a row-level anomaly never aborts the scan, in either mode: BufferRow
\* does not fault on a data row, whatever the number of its values.
C12_AnomaliesTolerated ==
    ~(Invoked /\ pc = "panic" /\ lineNo \in 1..Len(file) /\ IsData(file[lineNo]))

\* C13: an empty line, or a line that is just the marker character, is skipped:
\* the scan does not fault on it.
C13_BlankSkipped ==
    ~(/\ Invoked /\ pc = "panic" /\ lineNo \in 1..Len(file)
      /\ file[lineNo] \in {<<>>, <<Marker>>})

\* ------------------------------------------------------------ header scanner
Called == parsed # NotCalled

IsDirectiveLine(line) == Len(line) >= PrefixLen /\ SliceTo(line, PrefixLen) = Directive

HasDirective == \E k \in 1..Len(file) : IsDirectiveLine(file[k])

FirstDirective ==
    CHOOSE k \in 1..Len(file) :
        IsDirectiveLine(file[k]) /\ \A j \in 1..(k - 1) : ~IsDirectiveLine(file[j])

\* C14: on every file that can be opened, lines shorter than the directive prefix
\* included, ParseAllFields returns without an out-of-bounds fault; on a file
\* with no directive line it returns an empty header and no error.
C14_NoFaultOnShortLines ==
    (Called /\ openable)
    => (/\ parsed.err.kind # "panic"
        /\ ~HasDirective => (parsed.err = NoError /\ parsed.fields = <<>>))

\* C15: when the first directive line has nothing after the prefix, be it the
\* bare directive or the directive and its one separator character,
\* ParseAllFields fails with MalformedHeader and returns no header.
C15_MalformedHeader ==
    (/\ Called /\ openable /\ HasDirective
     /\ \A j \in 1..(FirstDirective - 1) : Len(file[j]) >= PrefixLen
     /\ Len(file[FirstDirective]) <= RestFrom)
    => (parsed.err.kind = "MalformedHeader" /\ parsed.isNil)

\* the file has a directive line with column names after the prefix, and the
\* lines before it are long enough to be compared with the prefix
WellFormedHead ==
    /\ HasDirective
    /\ \A j \in 1..(FirstDirective - 1) : Len(file[j]) >= PrefixLen
    /\ Len(file[FirstDirective]) > RestFrom

NumTabs(s) == Cardinality({i \in 1..Len(s) : s[i] = TAB})

\* the names of a header, with a TAB between each two
RECURSIVE Join(_)
Join(names) ==
    IF Len(names) = 0 THEN <<>>
    ELSE IF Len(names) = 1 THEN names[1]
    ELSE names[1] \o <<TAB>> \o Join(Tail(names))

\* C16: for a well-formed file the header ParseAllFields returns is the tab-split
\* of what follows the prefix in the FIRST directive line: its names hold no TAB,
\* joined by TABs they are that remainder, and their number is the number of
\* TABs in it plus one. Later directive lines do not count.
C16_HeaderOfFirstDirective ==
    (Called /\ openable /\ WellFormedHead)
    => LET rest == SliceFrom(file[FirstDirective], RestFrom) IN
       /\ parsed.err = NoError /\ ~parsed.isNil
       /\ Len(parsed.fields) = NumTabs(rest) + 1
       /\ \A i \in 1..Len(parsed.fields) : NumTabs(parsed.fields[i]) = 0
       /\ Join(parsed.fields) = rest

\* ParseAllFields returned the three names of the first of two directive lines
C16_Witness ==
    /\ Called /\ Len(file) = 2
    /\ file[1] = HdrABC /\ file[2] = HdrA
    /\ parsed.fields = <<Name("a"), Name("b"), Name("c")>>

\* ---------------------------------------------------------------- scan, stream
\* a line that does not begin with the marker, of n values of a character or more
IsRowOf(line, n) ==
    /\ IsData(line)
    /\ Len(Split(line)) = n
    /\ \A v \in 1..Len(Split(line)) : Split(line)[v] # <<>>

RECURSIVE RowsOf(_, _)
RowsOf(k, n) ==
    IF k = 0 THEN <<>>
    ELSE IF IsRowOf(file[k], n) THEN Append(RowsOf(k - 1, n), Split(file[k]))
    ELSE RowsOf(k - 1, n)

\* C17: a scan in all-fields mode that reaches the end of the file has emitted,
\* once each and in file order, every line that does not begin with the marker
\* and has as many values, of one character or more, as there are columns.
C17_ScanComplete ==
    (Invoked /\ allFields /\ LastRun.ret = "eof" /\ LastRun.hook = "none")
    => LastRun.rows = RowsOf(Len(file), Len(LastRun.fields))

\* C18: with the stream sized by AutoCreateBuffer, BufferRow never emits more
\* rows than the capacity and so never waits on a full stream that no consumer
\* has read from.
C18_AutoBufferSuffices ==
    Invoked =>
        /\ Len(LastRun.rows) <= Row.cap
        /\ ~(/\ Scanning /\ Classify(file[lineNo]).kind = "send"
             /\ ~Row.closed /\ Len(Row.buf) >= Row.cap /\ received = <<>>)

\* C19: no row is sent on, and no close is issued on, a stream that is already
\* closed.
C19_NoUseAfterClose == [][~(ScanSendClosed \/ (Close /\ Row.closed))]_vars

====
